---- MODULE Spec2Model ----
(***************************************************************************)
(* TerminalChatController                                                  *)
(* (src/vs/workbench/contrib/terminalContrib/chat/browser/                 *)
(*  terminalChatController.ts)                                             *)
(*                                                                         *)
(* One controller instance and its collaborators: the configuration flag,  *)
(* the lazily created chat widget (the presentation sink), the three       *)
(* context keys, the cancellation token source, the accessibility service  *)
(* and the chat agent service.  acceptInput is an async method: it runs    *)
(* synchronously up to 'await invokeAgent(...)', the agent then reports    *)
(* progress chunks through the callback, and the continuation (the catch   *)
(* handler or the classification) runs in one piece when the agent         *)
(* settles.  Calls of acceptInput may overlap: the code has no guard.      *)
(*                                                                         *)
(* A call that is awaiting the agent carries what it has done so far: its  *)
(* buffer, the chunks the agent reported to it and what it has done, in    *)
(* order: calls on the widget, context key sets, the agent invocation.     *)
(* When a call returns, that record is kept in last for the state the      *)
(* return leads to, and calls keeps the outcome only.                      *)
(*                                                                         *)
(* The environment of the controller comes in parts, each with a           *)
(* specification of its own: the user typing into the input box            *)
(* (SpecInput), agents coming and going in the agent service (SpecAgents), *)
(* layout calls (SpecLayout, Spec) and the focus of the widgets of two     *)
(* controllers, which share the static activeChatWidget (SpecFocus).       *)
(* SpecRequests is the request lifecycle with overlapping calls.           *)
(*                                                                         *)
(* Text is a sequence of symbols; the symbol Fence is the three-backtick   *)
(* marker, every other symbol is one ordinary character.                   *)
(***************************************************************************)
EXTENDS Integers, Sequences, FiniteSets, TLC

\* ---------------------------------------------------------------- bounds
\* number of acceptInput calls made on the controller
MaxCalls == 2
\* number of progress chunks the agent reports, over all calls
MaxChunks == 2

\* number of acceptInput calls in the specifications that add a part of
\* the controller's environment (typing, agent registration) to the requests
MaxCallsSmall == 1

\* number of layout calls made on the controller
MaxLayouts == 3

\* ------------------------------------------------------------ input sets
\* the three-backtick marker, one symbol of a text
Fence == "<fence>"

\* what the user may have typed into the input box of the widget
Inputs == {"", "ls"}

\* const agentId = 'terminal'
AgentId == "terminal"

\* the controllers of two terminals: 1 is the controller modelled in full,
\* 2 a second instance of the class, which shares the static field
Controllers == {1, 2}

\* the controllers whose terminal is a detached instance
\* (isDetachedTerminalInstance)
Detached == {2}

\* widths a layout call may carry
Widths == {80, 120}

Chunk(k, t) == [kind |-> k, content |-> t]

\* the argument of updateProgress() called with no argument
NoChunk == Chunk("undefined", <<>>)

\* progress chunks the agent may report (IChatProgress)
Chunks ==
  { Chunk("content", <<Fence, "a">>),
    Chunk("markdownContent", <<Fence>>),
    Chunk("progressMessage", <<"b">>) }

VARIABLES
  enabled,                 \* TerminalSettingId.ExperimentalInlineChat
  chatWidget,              \* _chatWidget: "undefined", "lazy" (not run), "ready"
  widgetInput,             \* the text in the widget's input box
  widgetLayouts,           \* the widths the widget was laid out with, in order
  layouts,                 \* number of layout calls made so far
  layoutArg,               \* dimension.width of the latest layout call, 0 when none
  lastLayoutDimensions,    \* _lastLayoutDimensions.width, 0 when undefined
  accessibilityRequestId,  \* _accessibilityRequestId
  ctxHasActiveRequest,     \* TerminalContextKeys.chatRequestActive
  ctxLastResponseType,     \* CTX_INLINE_CHAT_RESPONSE_TYPES
  cancelled,               \* _cancellationTokenSource.token.isCancellationRequested
  cancelThrew,             \* cancel() raised a TypeError (no token source)
  acceptRequests,          \* calls of IChatAccessibilityService.acceptRequest
  uuids,                   \* identifiers handed out by generateUuid
  reported,                \* number of progress chunks the agent has reported
  agentRegistered,         \* IChatAgentService has an agent 'terminal'
  ctxHasTerminalAgent,     \* TerminalContextKeys.chatAgentRegistered
  agentListener,           \* the constructor subscribed to onDidChangeAgents
  activeChatWidget,        \* static TerminalChatController.activeChatWidget, 0 = undefined
  peerWidget,              \* the chat widget of controller 2 has been created
  focused,                 \* controllers whose widget had focus and no blur since
  lastFocused,             \* controller whose widget got the latest focus event, 0 = none
  activeInstance,          \* ITerminalService.activeInstance, 0 = another terminal
  scrollbarResets,         \* instances whose resetScrollbarVisibility was called
  calls,                   \* the acceptInput calls made so far, in call order
  last                     \* the call that returned in the latest step, if any

vars ==
  << enabled, chatWidget, widgetInput, widgetLayouts, layouts, layoutArg,
     lastLayoutDimensions, accessibilityRequestId, ctxHasActiveRequest,
     ctxLastResponseType, cancelled, cancelThrew, acceptRequests, uuids,
     reported, agentRegistered, ctxHasTerminalAgent, agentListener,
     activeChatWidget, peerWidget, focused, lastFocused, activeInstance,
     scrollbarResets, calls, last >>

\* the static field, the focus of the widgets and what the focus handlers
\* touch
focusVars ==
  << activeChatWidget, peerWidget, focused, lastFocused, activeInstance,
     scrollbarResets >>

\* the chat agent service and the context key bound to it
agentVars == << agentRegistered, ctxHasTerminalAgent, agentListener >>

\* --------------------------------------------------------------- helpers
\* this._chatWidget?.rawValue is defined
RawValue == chatWidget = "ready"

\* one call made on the widget
SinkCall(op, chunk, text, id, reqId) ==
  [op |-> op, chunk |-> chunk, text |-> text, id |-> id, reqId |-> reqId]

\* this._chatWidget?.rawValue?.f(...): the calls reach the widget only when
\* the lazy value has been created
OnSink(cs) == IF RawValue THEN cs ELSE <<>>

\* one thing a call does that is not a call on the widget: a context key
\* set ("setActive", "resetActive", "setLastResponseType") or the call of
\* invokeAgent
Step(op) == SinkCall(op, NoChunk, <<>>, 0, 0)

\* ---------------------------------------------- marked.lexer and codeBlock
RECURSIVE NextFence(_, _)
\* position of the first Fence of s at or after i, 0 when there is none
NextFence(s, i) ==
  IF i > Len(s) THEN 0
  ELSE IF s[i] = Fence THEN i
  ELSE NextFence(s, i + 1)

RECURSIVE LexFrom(_, _)
\* top-level tokens of s from position i on: a fenced code block is a Fence,
\* a non-empty text without Fence, and a closing Fence; anything else is
\* paragraph text
LexFrom(s, i) ==
  IF i > Len(s) THEN <<>>
  ELSE IF s[i] = Fence /\ i < Len(s) /\ s[i + 1] # Fence
          /\ NextFence(s, i + 1) # 0
       THEN LET j == NextFence(s, i + 1)
            IN  <<[type |-> "code", raw |-> SubSeq(s, i, j)]>>
                  \o LexFrom(s, j + 1)
       ELSE <<[type |-> "paragraph", raw |-> <<s[i]>>]>> \o LexFrom(s, i + 1)

Lexer(s) == LexFrom(s, 1)

\* String.prototype.replaceAll(pat, '') for a one-symbol pattern
ReplaceAll(raw, pat) == SelectSeq(raw, LAMBDA x : x # pat)

\* a mutant of StripFences: the raw text of the token is used as it is
StripFencesKeepRaw(raw) == raw

\* raw.replaceAll(fence, '')
StripFences(raw) == ReplaceAll(raw, Fence)

\* the value of an optional chain that found nothing
Undefined == [defined |-> FALSE, text |-> <<>>]

\* marked.lexer(message).filter(token => token.type === 'code')?.[0]
\*   ?.raw.replaceAll(fence, '')
CodeBlock(message) ==
  LET code == SelectSeq(Lexer(message), LAMBDA t : t.type = "code")
  IN  IF code = <<>> THEN Undefined
      ELSE [defined |-> TRUE, text |-> StripFences(code[1].raw)]

\* if (codeBlock): undefined and the empty string are falsy
Truthy(v) == v.defined /\ v.text # <<>>

\* ------------------------------------------------------- progressCallback
\* a mutant of CallbackRuns: the callback does not look at the token
CallbackRunsAlways(tok) == TRUE

\* if (cancellationToken.isCancellationRequested) { return; }
CallbackRuns(tok) == ~tok

\* a mutant of IsTextKind: markdownContent chunks are not accumulated
IsTextKindContentOnly(ch) == ch.kind = "content"

\* progress.kind === 'content' || progress.kind === 'markdownContent'
IsTextKind(ch) == ch.kind \in {"content", "markdownContent"}

\* if (...) { message += progress.content; }
AppendContent(message, ch) ==
  IF IsTextKind(ch) THEN message \o ch.content ELSE message

\* a mutant of BufferOwners: the buffer is a field of the controller, which
\* the calls that are awaiting the agent share
BufferOwnersShared(c) == {d \in 1..Len(calls) : calls[d].pc = "awaiting"}

\* let message = '': the buffer is a local of the call, and the callback of
\* call c closes over the buffer of call c
BufferOwners(c) == {c}

\* a mutant of Forward: the chunk is put in front of what the widget got
ForwardInFront(log, cs) == cs \o log

\* the widget receives the calls in the order they are made
Forward(log, cs) == log \o cs

\* ------------------------------------------------------ acceptInput parts
\* a mutant of TokenRequested: every call gets a token of its own, which is
\* cancelled only by a cancel() made after the call started
TokenRequestedFresh(call, src) == src /\ ~call.tokenAtStart

\* const cancellationToken = this._cancellationTokenSource.token: every call
\* holds the one token of the controller's one token source
TokenRequested(call, src) == src

\* a mutant of CounterAfterResolve: the counter is incremented after the
\* cancellation check
CounterAfterCheck(n, tok) == IF tok THEN n ELSE n + 1

\* this._accessibilityRequestId++ (before the cancellation check)
CounterAfterResolve(n, tok) == n + 1

\* a mutant of CounterRead: the render call gets the value the increment
\* expression yields, the one before the increment
CounterReadBefore(before, after) == before

\* renderTerminalCommand(codeBlock, this._accessibilityRequestId) and
\* renderMessage(message, this._accessibilityRequestId, requestId) read the
\* field after the increment
CounterRead(before, after) == after

\* a mutant of FlagAfterCatch: the catch handler forgets the context key
FlagAfterCatchKept(flag) == flag

\* catch (e) { this._ctxHasActiveRequest.set(false); ... }
FlagAfterCatch(flag) == FALSE

\* a mutant of ResponseTypeAfter: the key is set on the command branch too
ResponseTypeAfterAlways(codeBlock, t) == "OnlyMessages"

\* the else branch of if (codeBlock):
\* this._ctxLastResponseType.set(InlineChatResponseTypes.OnlyMessages)
ResponseTypeAfter(codeBlock, t) ==
  IF Truthy(codeBlock) THEN t ELSE "OnlyMessages"

\* a mutant of RenderCalls: a command is rendered and the message as well
RenderCallsBoth(codeBlock, message, id, reqId) ==
  IF Truthy(codeBlock)
  THEN << SinkCall("renderTerminalCommand", NoChunk, codeBlock.text, id, 0),
          SinkCall("renderMessage", NoChunk, message, id, reqId) >>
  ELSE << SinkCall("renderMessage", NoChunk, message, id, reqId) >>

\* if (codeBlock) { renderTerminalCommand(codeBlock, id) }
\* else { renderMessage(message, id, requestId) }
RenderCalls(codeBlock, message, id, reqId) ==
  IF Truthy(codeBlock)
  THEN << SinkCall("renderTerminalCommand", NoChunk, codeBlock.text, id, 0) >>
  ELSE << SinkCall("renderMessage", NoChunk, message, id, reqId) >>

\* what acceptInput does up to the await, in the order of its statements:
\* _ctxHasActiveRequest.set(true), the two reads of the input box for
\* requestProps, setValue() and the call of invokeAgent
StartSteps ==
  << Step("setActive") >>
    \o OnSink(<< SinkCall("input", NoChunk, <<>>, 0, 0),
                 SinkCall("input", NoChunk, <<>>, 0, 0),
                 SinkCall("setValue", NoChunk, <<>>, 0, 0) >>)
    \o << Step("invokeAgent") >>

\* the catch handler: _ctxHasActiveRequest.set(false), updateProgress()
CatchSteps ==
  << Step("resetActive") >>
    \o OnSink(<< SinkCall("updateProgress", NoChunk, <<>>, 0, 0) >>)

\* a mutant of FinishSteps: the context key is reset before the response
\* is rendered
FinishStepsResetFirst(codeBlock, renders) ==
  << Step("resetActive") >>
    \o OnSink(renders)
    \o (IF Truthy(codeBlock) THEN <<>> ELSE << Step("setLastResponseType") >>)
    \o OnSink(<< SinkCall("updateProgress", NoChunk, <<>>, 0, 0) >>)

\* what acceptInput does after the cancellation check: the render call,
\* _ctxLastResponseType.set(OnlyMessages) on the message branch,
\* _ctxHasActiveRequest.set(false), updateProgress()
FinishSteps(codeBlock, renders) ==
  OnSink(renders)
    \o (IF Truthy(codeBlock) THEN <<>> ELSE << Step("setLastResponseType") >>)
    \o << Step("resetActive") >>
    \o OnSink(<< SinkCall("updateProgress", NoChunk, <<>>, 0, 0) >>)

\* this._chatWidget?.rawValue?.input() || ''
InputRead(w) == IF RawValue THEN w ELSE ""

\* a mutant of RequestMessage: the input box is read after setValue() has
\* cleared it
RequestMessageAfterClear(w) == InputRead("")

\* message: this._chatWidget?.rawValue?.input() || '' (read for requestProps
\* before setValue() is called)
RequestMessage(w) == InputRead(w)

\* requestProps: IChatAgentRequest
Request(sessionId, requestId, message) ==
  [sessionId |-> sessionId, requestId |-> requestId, agentId |-> AgentId,
   message |-> message, variables |-> {},
   variables2 |-> [message |-> message, variables |-> <<>>]]

\* the record of an acceptInput call that reached 'await invokeAgent'
NewCall(req, log) ==
  [pc |-> "awaiting", outcome |-> "pending", message |-> <<>>,
   requestId |-> uuids + 1, request |-> Request(uuids + 2, uuids + 1, req),
   produced |-> <<>>, log |-> log, tokenAtStart |-> cancelled,
   sinkAtStart |-> RawValue,
   overlapped |-> \E c \in 1..Len(calls) : calls[c].pc = "awaiting",
   tokenAtSettle |-> FALSE, sinkAtSettle |-> FALSE, flagAtReturn |-> FALSE]

\* what calls keeps of a call that is over: how it ended
Over(pc, outcome) ==
  [pc |-> pc, outcome |-> outcome, message |-> <<>>,
   requestId |-> 0, request |-> Request(0, 0, ""),
   produced |-> <<>>, log |-> <<>>, tokenAtStart |-> FALSE,
   sinkAtStart |-> FALSE, overlapped |-> FALSE,
   tokenAtSettle |-> FALSE, sinkAtSettle |-> FALSE, flagAtReturn |-> FALSE]

\* no call returned in the latest step
NoCall == Over("none", "none")

\* the record of an acceptInput call that threw before it reached the agent
ThrownCall ==
  [Over("threw", "TypeError") EXCEPT !.flagAtReturn = ctxHasActiveRequest]

\* ------------------------------------------------------------------ Init
\* the state after the constructor, run when hasAgent('terminal') is agent:
\* with the feature off the constructor returns before it binds a context
\* key, subscribes to the agent service or creates the token source
Constructed(agent) ==
  /\ enabled \in BOOLEAN
  /\ agentRegistered = agent
  /\ ctxHasTerminalAgent = (enabled /\ agent)
  /\ agentListener = (enabled /\ ~agent)
  /\ chatWidget = "undefined"
  /\ widgetInput = ""
  /\ widgetLayouts = <<>>
  /\ layouts = 0
  /\ layoutArg = 0
  /\ lastLayoutDimensions = 0
  /\ accessibilityRequestId = 0
  /\ ctxHasActiveRequest = FALSE
  /\ ctxLastResponseType = "undefined"
  /\ cancelled = FALSE
  /\ cancelThrew = FALSE
  /\ acceptRequests = 0
  /\ uuids = 0
  /\ reported = 0
  /\ activeChatWidget = 0
  /\ peerWidget = FALSE
  /\ focused = {}
  /\ lastFocused = 0
  /\ activeInstance = 0
  /\ scrollbarResets = {}
  /\ calls = <<>>
  /\ last = NoCall

\* a controller constructed before the terminal agent is registered
Init == Constructed(FALSE)

\* a controller constructed before or after the agent is registered
InitAgents == \E agent \in BOOLEAN : Constructed(agent)

\* --------------------------------------------------------------- actions
\* layout(_xterm, dimension)
Layout(w) ==
  /\ layouts < MaxLayouts
  /\ layouts' = layouts + 1
  /\ layoutArg' = w
  /\ IF ~enabled
     THEN UNCHANGED << lastLayoutDimensions, widgetLayouts >>
     ELSE /\ lastLayoutDimensions' = w
          /\ widgetLayouts' =
               IF RawValue THEN Append(widgetLayouts, w) ELSE widgetLayouts
  /\ last' = NoCall
  /\ UNCHANGED << enabled, chatWidget, widgetInput, accessibilityRequestId,
                  ctxHasActiveRequest, ctxLastResponseType, cancelled,
                  cancelThrew, acceptRequests, uuids, reported, calls >>
  /\ UNCHANGED agentVars
  /\ UNCHANGED focusVars

\* xtermReady(xterm): the terminal instance calls it once, when its xterm
\* is there
XtermReady ==
  /\ chatWidget = "undefined"
  /\ IF ~enabled
     THEN UNCHANGED << chatWidget, widgetInput, widgetLayouts >>
     ELSE /\ chatWidget' = "lazy"
          /\ widgetInput' = ""
          /\ widgetLayouts' = <<>>
  /\ last' = NoCall
  /\ UNCHANGED << enabled, lastLayoutDimensions, accessibilityRequestId,
                  ctxHasActiveRequest, ctxLastResponseType, cancelled,
                  cancelThrew, acceptRequests, uuids, reported, calls >>
  /\ UNCHANGED agentVars
  /\ UNCHANGED << layouts, layoutArg >>
  /\ UNCHANGED focusVars

\* a mutant of LayoutsAtCreation: the factory does not lay the widget out
LayoutsAtCreationNone(d) == <<>>

\* if (this._lastLayoutDimensions) {
\*   chatWidget.layout(this._lastLayoutDimensions.width); }
LayoutsAtCreation(d) == IF d # 0 THEN << d >> ELSE <<>>

\* get chatWidget(): the first read of the Lazy's value runs the factory of
\* xtermReady (the terminal's DOM element is there)
GetChatWidget ==
  /\ chatWidget = "lazy"
  /\ chatWidget' = "ready"
  /\ widgetInput' = ""
  /\ widgetLayouts' = LayoutsAtCreation(lastLayoutDimensions)
  /\ last' = NoCall
  /\ UNCHANGED << enabled, lastLayoutDimensions, accessibilityRequestId,
                  ctxHasActiveRequest, ctxLastResponseType, cancelled,
                  cancelThrew, acceptRequests, uuids, reported, calls >>
  /\ UNCHANGED agentVars
  /\ UNCHANGED << layouts, layoutArg >>
  /\ UNCHANGED focusVars

\* cancel(): with the feature off there is no token source to cancel
Cancel ==
  /\ IF enabled
     THEN cancelled' = TRUE /\ UNCHANGED cancelThrew
     ELSE cancelThrew' = TRUE /\ UNCHANGED cancelled
  /\ last' = NoCall
  /\ UNCHANGED << enabled, chatWidget, widgetInput, widgetLayouts,
                  lastLayoutDimensions, accessibilityRequestId,
                  ctxHasActiveRequest, ctxLastResponseType, acceptRequests,
                  uuids, reported, calls >>
  /\ UNCHANGED agentVars
  /\ UNCHANGED << layouts, layoutArg >>
  /\ UNCHANGED focusVars

\* acceptInput(), up to 'await this._chatAgentService.invokeAgent(...)'.
\* With the feature off _ctxHasActiveRequest was never bound: the call has
\* told the accessibility service of a request and then throws a TypeError.
AcceptInput ==
  /\ Len(calls) < MaxCalls
  /\ acceptRequests' = acceptRequests + 1
  /\ IF ~enabled
     THEN /\ calls' = Append(calls, Over("threw", "TypeError"))
          /\ last' = ThrownCall
          /\ UNCHANGED << ctxHasActiveRequest, uuids, widgetInput >>
     ELSE /\ ctxHasActiveRequest' = TRUE
          /\ uuids' = uuids + 2
          /\ calls' = Append(
               [c \in 1..Len(calls) |->
                  IF calls[c].pc = "awaiting"
                  THEN [calls[c] EXCEPT !.overlapped = TRUE] ELSE calls[c]],
               NewCall(RequestMessage(widgetInput),
                       Forward(<<>>, StartSteps)))
          /\ widgetInput' = ""
          /\ last' = NoCall
  /\ UNCHANGED << enabled, chatWidget, widgetLayouts, lastLayoutDimensions,
                  accessibilityRequestId, ctxLastResponseType, cancelled,
                  cancelThrew, reported >>
  /\ UNCHANGED agentVars
  /\ UNCHANGED << layouts, layoutArg >>
  /\ UNCHANGED focusVars

\* acceptInput in the specifications that bound the calls by MaxCallsSmall
AcceptInputSmall ==
  /\ Len(calls) < MaxCallsSmall
  /\ AcceptInput

\* the user edits the text of the input box of the widget
TypeInput(t) ==
  /\ RawValue
  /\ widgetInput' = t
  /\ last' = NoCall
  /\ UNCHANGED << enabled, chatWidget, widgetLayouts, lastLayoutDimensions,
                  accessibilityRequestId, ctxHasActiveRequest,
                  ctxLastResponseType, cancelled, cancelThrew, acceptRequests,
                  uuids, reported, calls >>
  /\ UNCHANGED agentVars
  /\ UNCHANGED << layouts, layoutArg >>
  /\ UNCHANGED focusVars

\* a mutant of AgentKeyAfterEvent: the key follows the agent
AgentKeyFollowsAgent(key, agent) == agent

\* if (this._chatAgentService.getAgent('terminal')) {
\*   this._ctxHasTerminalAgent.set(true); }
AgentKeyAfterEvent(key, agent) == IF agent THEN TRUE ELSE key

\* the agent service registers or unregisters an agent and fires
\* onDidChangeAgents; agent tells whether 'terminal' is registered
\* afterwards.  The listener is there when the constructor found no
\* terminal agent.
AgentsChanged(agent) ==
  /\ agentRegistered' = agent
  /\ ctxHasTerminalAgent' =
       IF agentListener
       THEN AgentKeyAfterEvent(ctxHasTerminalAgent, agent)
       ELSE ctxHasTerminalAgent
  /\ last' = NoCall
  /\ UNCHANGED << enabled, chatWidget, widgetInput, widgetLayouts,
                  lastLayoutDimensions, accessibilityRequestId,
                  ctxHasActiveRequest, ctxLastResponseType, cancelled,
                  cancelThrew, acceptRequests, uuids, reported,
                  agentListener, calls >>
  /\ UNCHANGED << layouts, layoutArg >>
  /\ UNCHANGED focusVars

\* the widget of controller k exists, and with it its focus tracker
WidgetOf(k) == IF k = 1 THEN RawValue ELSE peerWidget

\* xtermReady and the first read of chatWidget on controller 2
PeerCreated ==
  /\ enabled
  /\ ~peerWidget
  /\ peerWidget' = TRUE
  /\ last' = NoCall
  /\ UNCHANGED << enabled, chatWidget, widgetInput, widgetLayouts, layouts,
                  layoutArg, lastLayoutDimensions, accessibilityRequestId,
                  ctxHasActiveRequest, ctxLastResponseType, cancelled,
                  cancelThrew, acceptRequests, uuids, reported, calls,
                  activeChatWidget, focused, lastFocused, activeInstance,
                  scrollbarResets >>
  /\ UNCHANGED agentVars

\* chatWidget.focusTracker.onDidFocus(...) of controller k.  The focus
\* tracker of one widget may report focus before the tracker of the widget
\* that lost it reports blur.
Focus(k) ==
  /\ WidgetOf(k)
  /\ k \notin focused
  /\ focused' = focused \cup {k}
  /\ lastFocused' = k
  /\ activeChatWidget' = k
  /\ activeInstance' = IF k \in Detached THEN activeInstance ELSE k
  /\ last' = NoCall
  /\ UNCHANGED << enabled, chatWidget, widgetInput, widgetLayouts, layouts,
                  layoutArg, lastLayoutDimensions, accessibilityRequestId,
                  ctxHasActiveRequest, ctxLastResponseType, cancelled,
                  cancelThrew, acceptRequests, uuids, reported, calls,
                  peerWidget, scrollbarResets >>
  /\ UNCHANGED agentVars

\* a mutant of ActiveAfterBlur: only the controller recorded as active
\* clears the static field
ActiveAfterBlurOwn(active, k) == IF active = k THEN 0 ELSE active

\* TerminalChatController.activeChatWidget = undefined
ActiveAfterBlur(active, k) == 0

\* chatWidget.focusTracker.onDidBlur(...) of controller k
Blur(k) ==
  /\ k \in focused
  /\ focused' = focused \ {k}
  /\ activeChatWidget' = ActiveAfterBlur(activeChatWidget, k)
  /\ scrollbarResets' = scrollbarResets \cup {k}
  /\ last' = NoCall
  /\ UNCHANGED << enabled, chatWidget, widgetInput, widgetLayouts, layouts,
                  layoutArg, lastLayoutDimensions, accessibilityRequestId,
                  ctxHasActiveRequest, ctxLastResponseType, cancelled,
                  cancelThrew, acceptRequests, uuids, reported, calls,
                  peerWidget, lastFocused, activeInstance >>
  /\ UNCHANGED agentVars

\* invokeAgent reports progress only while its promise is pending: the
\* chunks of a response come before the response settles
AgentMayReport(call) == call.pc = "awaiting"

\* the agent reports one progress chunk to the callback of call c
Progress(c, ch) ==
  /\ c \in 1..Len(calls)
  /\ AgentMayReport(calls[c])
  /\ reported < MaxChunks
  /\ reported' = reported + 1
  /\ LET tok == TokenRequested(calls[c], cancelled)
         appended ==
           [d \in 1..Len(calls) |->
              IF d \in BufferOwners(c) /\ CallbackRuns(tok)
              THEN [calls[d] EXCEPT !.message = AppendContent(@, ch)]
              ELSE calls[d]]
     IN  calls' = [appended EXCEPT
           ![c].produced =
              Append(@, [chunk |-> ch, cancelled |-> cancelled,
                         sink |-> RawValue]),
           ![c].log =
              IF CallbackRuns(tok)
              THEN Forward(@, OnSink(
                     << SinkCall("updateProgress", ch, <<>>, 0, 0) >>))
              ELSE @]
  /\ last' = NoCall
  /\ UNCHANGED << enabled, chatWidget, widgetInput, widgetLayouts,
                  lastLayoutDimensions, accessibilityRequestId,
                  ctxHasActiveRequest, ctxLastResponseType, cancelled,
                  cancelThrew, acceptRequests, uuids >>
  /\ UNCHANGED agentVars
  /\ UNCHANGED << layouts, layoutArg >>
  /\ UNCHANGED focusVars

\* invokeAgent of call c fails: the catch handler of acceptInput
AgentRejects(c) ==
  /\ c \in 1..Len(calls)
  /\ calls[c].pc = "awaiting"
  /\ ctxHasActiveRequest' = FlagAfterCatch(ctxHasActiveRequest)
  /\ last' = [calls[c] EXCEPT
        !.pc = "returned",
        !.outcome = "failed",
        !.log = Forward(@, CatchSteps),
        !.tokenAtSettle = cancelled,
        !.sinkAtSettle = RawValue,
        !.flagAtReturn = ctxHasActiveRequest']
  /\ calls' = [calls EXCEPT ![c] = Over("returned", "failed")]
  /\ UNCHANGED << enabled, chatWidget, widgetInput, widgetLayouts,
                  lastLayoutDimensions, accessibilityRequestId,
                  ctxLastResponseType, cancelled, cancelThrew,
                  acceptRequests, uuids, reported >>
  /\ UNCHANGED agentVars
  /\ UNCHANGED << layouts, layoutArg >>
  /\ UNCHANGED focusVars

\* invokeAgent of call c completes: the rest of acceptInput
AgentResolves(c) ==
  /\ c \in 1..Len(calls)
  /\ calls[c].pc = "awaiting"
  /\ LET call == calls[c]
         tok == TokenRequested(call, cancelled)
         codeBlock == CodeBlock(call.message)
         id == CounterAfterResolve(accessibilityRequestId, tok)
         renders == RenderCalls(codeBlock, call.message,
                                CounterRead(accessibilityRequestId, id),
                                call.requestId)
         outcome == IF tok THEN "cancelled"
                    ELSE IF Truthy(codeBlock) THEN "command" ELSE "message"
     IN  /\ accessibilityRequestId' = id
         /\ IF tok
            THEN /\ UNCHANGED << ctxLastResponseType, ctxHasActiveRequest >>
                 /\ last' = [call EXCEPT
                       !.pc = "returned",
                       !.outcome = outcome,
                       !.tokenAtSettle = cancelled,
                       !.sinkAtSettle = RawValue,
                       !.flagAtReturn = ctxHasActiveRequest]
            ELSE /\ ctxLastResponseType' =
                      ResponseTypeAfter(codeBlock, ctxLastResponseType)
                 /\ ctxHasActiveRequest' = FALSE
                 /\ last' = [call EXCEPT
                       !.pc = "returned",
                       !.outcome = outcome,
                       !.log = Forward(@, FinishSteps(codeBlock, renders)),
                       !.tokenAtSettle = cancelled,
                       !.sinkAtSettle = RawValue,
                       !.flagAtReturn = FALSE]
         /\ calls' = [calls EXCEPT ![c] = Over("returned", outcome)]
  /\ UNCHANGED << enabled, chatWidget, widgetInput, widgetLayouts,
                  lastLayoutDimensions, cancelled, cancelThrew,
                  acceptRequests, uuids, reported >>
  /\ UNCHANGED agentVars
  /\ UNCHANGED << layouts, layoutArg >>
  /\ UNCHANGED focusVars

Next ==
  \/ \E w \in Widths : Layout(w)
  \/ XtermReady
  \/ GetChatWidget
  \/ Cancel
  \/ AcceptInput
  \/ \E c \in 1..MaxCalls : \E ch \in Chunks : Progress(c, ch)
  \/ \E c \in 1..MaxCalls : AgentRejects(c)
  \/ \E c \in 1..MaxCalls : AgentResolves(c)

Spec == Init /\ [][Next]_vars

\* The requests alone.  layout reads and writes _lastLayoutDimensions and the
\* width of the widget only, which no other method reads but the factory of
\* the widget, so the request lifecycle is the same with and without it.
NextRequests ==
  \/ XtermReady
  \/ GetChatWidget
  \/ Cancel
  \/ AcceptInput
  \/ \E c \in 1..MaxCalls : \E ch \in Chunks : Progress(c, ch)
  \/ \E c \in 1..MaxCalls : AgentRejects(c)
  \/ \E c \in 1..MaxCalls : AgentResolves(c)

SpecRequests == Init /\ [][NextRequests]_vars

\* The requests one at a time in the base case: what a call does with its
\* own response.
NextRequestsSmall ==
  \/ XtermReady
  \/ GetChatWidget
  \/ Cancel
  \/ AcceptInputSmall
  \/ \E c \in 1..MaxCalls : \E ch \in Chunks : Progress(c, ch)
  \/ \E c \in 1..MaxCalls : AgentRejects(c)
  \/ \E c \in 1..MaxCalls : AgentResolves(c)

SpecRequestsSmall == Init /\ [][NextRequestsSmall]_vars

\* The requests of a user who types into the input box.
NextInput ==
  \/ XtermReady
  \/ GetChatWidget
  \/ Cancel
  \/ \E t \in Inputs : TypeInput(t)
  \/ AcceptInputSmall
  \/ \E c \in 1..MaxCalls : \E ch \in Chunks : Progress(c, ch)
  \/ \E c \in 1..MaxCalls : AgentRejects(c)
  \/ \E c \in 1..MaxCalls : AgentResolves(c)

SpecInput == Init /\ [][NextInput]_vars

\* The requests while agents come and go in the agent service.
NextAgents ==
  \/ XtermReady
  \/ GetChatWidget
  \/ Cancel
  \/ \E agent \in BOOLEAN : AgentsChanged(agent)
  \/ AcceptInputSmall
  \/ \E c \in 1..MaxCalls : \E ch \in Chunks : Progress(c, ch)
  \/ \E c \in 1..MaxCalls : AgentRejects(c)
  \/ \E c \in 1..MaxCalls : AgentResolves(c)

SpecAgents == InitAgents /\ [][NextAgents]_vars

\* The widget and its layout, with requests to which the agent reports no
\* progress: the callback touches neither the dimension nor the Lazy.
NextLayout ==
  \/ \E w \in Widths : Layout(w)
  \/ XtermReady
  \/ GetChatWidget
  \/ Cancel
  \/ AcceptInputSmall
  \/ \E c \in 1..MaxCalls : AgentRejects(c)
  \/ \E c \in 1..MaxCalls : AgentResolves(c)

SpecLayout == Init /\ [][NextLayout]_vars

\* The widgets of two controllers and their focus, with requests made on
\* controller 1 to which the agent reports no progress.
NextFocus ==
  \/ XtermReady
  \/ GetChatWidget
  \/ PeerCreated
  \/ \E k \in Controllers : Focus(k)
  \/ \E k \in Controllers : Blur(k)
  \/ Cancel
  \/ AcceptInputSmall
  \/ \E c \in 1..MaxCalls : AgentRejects(c)
  \/ \E c \in 1..MaxCalls : AgentResolves(c)

SpecFocus == Init /\ [][NextFocus]_vars

\* ------------------------------------------------- vocabulary of the claims
CallIds == 1..Len(calls)

\* the calls that are awaiting the agent
Outstanding == {c \in CallIds : calls[c].pc = "awaiting"}

\* a call has just gone through its continuation and returned to its caller
JustReturned == last.pc = "returned"

\* the calls whose record the state holds: those awaiting the agent and the
\* one that has just returned
Observed ==
  {calls[c] : c \in Outstanding} \cup (IF JustReturned THEN {last} ELSE {})

\* invokeAgent of the call completed without error and without cancellation
CompletedNormally(r) ==
  /\ r.pc = "returned"
  /\ r.outcome # "failed"
  /\ ~r.tokenAtSettle

IsRender(e) == e.op \in {"renderTerminalCommand", "renderMessage"}

\* updateProgress(progress): a chunk handed on to the widget
IsForward(e) == e.op = "updateProgress" /\ e.chunk # NoChunk

\* updateProgress(): the progress display is cleared
IsClear(e) == e.op = "updateProgress" /\ e.chunk = NoChunk

Renders(r) == SelectSeq(r.log, IsRender)

Clears(r) == SelectSeq(r.log, IsClear)

\* the chunks the call handed on to the widget, in the order the widget got
\* them
ForwardedChunks(r) ==
  LET f == SelectSeq(r.log, IsForward)
  IN  [i \in 1..Len(f) |-> f[i].chunk]

ChunksOf(ps) == [i \in 1..Len(ps) |-> ps[i].chunk]

\* the chunks the agent reported to the call before cancel() was signalled
Live(r) == SelectSeq(r.produced, LAMBDA p : ~p.cancelled)

\* ... and while the widget existed
LiveOnSink(r) == SelectSeq(r.produced, LAMBDA p : ~p.cancelled /\ p.sink)

RECURSIVE ConcatText(_)
\* the contents of the 'content' and 'markdownContent' chunks of ps, in order
ConcatText(ps) ==
  IF ps = <<>> THEN <<>>
  ELSE (IF Head(ps).chunk.kind = "content"
           \/ Head(ps).chunk.kind = "markdownContent"
        THEN Head(ps).chunk.content ELSE <<>>) \o ConcatText(Tail(ps))

RECURSIVE IsSubSeq(_, _)
\* a is b with some elements left out
IsSubSeq(a, b) ==
  IF a = <<>> THEN TRUE
  ELSE IF b = <<>> THEN FALSE
  ELSE IF Head(a) = Head(b) THEN IsSubSeq(Tail(a), Tail(b))
  ELSE IsSubSeq(a, Tail(b))

\* s[i] .. s[j] is a fenced code block: two markers around a non-empty text
\* that holds no marker
IsBlock(s, i, j) ==
  /\ s[i] = Fence
  /\ s[j] = Fence
  /\ j > i + 1
  /\ \A k \in (i + 1)..(j - 1) : s[k] # Fence

HasFencedBlock(s) == \E i, j \in 1..Len(s) : IsBlock(s, i, j)

\* the text between the markers of the leftmost fenced code block of s
FirstBlockText(s) ==
  LET i == CHOOSE x \in 1..Len(s) :
             /\ \E j \in 1..Len(s) : IsBlock(s, x, j)
             /\ \A y \in 1..(x - 1) : \A j \in 1..Len(s) : ~IsBlock(s, y, j)
      j == CHOOSE y \in 1..Len(s) : IsBlock(s, i, y)
  IN  SubSeq(s, i + 1, j - 1)

\* ---------------------------------------------------------------- claims
\* C1: if cancel() is signalled before the agent invocation of an
\* acceptInput call completes, the call makes no renderTerminalCommand and
\* no renderMessage call, and chatRequestActive is false once the call has
\* returned.
C1_CancelledCallClearsActiveFlag ==
  (JustReturned /\ last.tokenAtSettle)
    => (Renders(last) = <<>> /\ last.flagAtReturn = FALSE)

\* C2 as stated: every acceptInput call whose agent invocation completes
\* without error and without cancellation makes exactly one render call
\* (renderTerminalCommand or renderMessage) on the sink.
C2_ExactlyOneRender ==
  CompletedNormally(last) => Len(Renders(last)) = 1

\* C2, amended: such a call makes exactly one render call when the widget
\* exists at the time the response is classified, and no render call when
\* there is no widget.
C2_ExactlyOneRenderOnWidget ==
  CompletedNormally(last)
    => Len(Renders(last)) = (IF last.sinkAtSettle THEN 1 ELSE 0)

C2_Witness ==
  /\ CompletedNormally(last)
  /\ last.sinkAtSettle
  /\ last.produced # <<>>
  /\ Len(Renders(last)) = 1

\* C3: with the feature flag off, acceptInput, layout and xtermReady change
\* no controller state and no context key, call neither the widget nor a
\* collaborator service, and raise no error.
C3_DisabledIsInert ==
  ~enabled =>
    /\ chatWidget = "undefined"
    /\ lastLayoutDimensions = 0
    /\ widgetLayouts = <<>>
    /\ accessibilityRequestId = 0
    /\ ctxHasActiveRequest = FALSE
    /\ ctxLastResponseType = "undefined"
    /\ acceptRequests = 0
    /\ last.log = <<>>
    /\ \A c \in CallIds : calls[c].pc # "threw"

\* C4 as stated: when the agent invocation fails, acceptInput returns
\* normally, chatRequestActive is false afterwards, the last thing the call
\* did on the sink is updateProgress() with no argument, and it made no
\* render call.
C4_FailureClearsProgress ==
  last.outcome = "failed"
    => /\ last.pc = "returned"
       /\ last.flagAtReturn = FALSE
       /\ Renders(last) = <<>>
       /\ last.log # <<>>
       /\ IsClear(last.log[Len(last.log)])

\* C4, amended: when the agent invocation fails, acceptInput returns
\* normally, chatRequestActive is false afterwards and no render call was
\* made; if the widget exists when the failure is handled the call ends
\* with one updateProgress() with no argument, and without a widget nothing
\* is cleared.
C4_FailureClearsProgressOnWidget ==
  last.outcome = "failed"
    => /\ last.pc = "returned"
       /\ last.flagAtReturn = FALSE
       /\ Renders(last) = <<>>
       /\ IF last.sinkAtSettle
          THEN /\ Len(Clears(last)) = 1
               /\ IsClear(last.log[Len(last.log)])
          ELSE Clears(last) = <<>>

C4_Witness ==
  /\ last.outcome = "failed"
  /\ last.sinkAtSettle
  /\ last.produced # <<>>
  /\ ~last.tokenAtSettle
  /\ Len(Clears(last)) = 1

\* C5 as stated: the accessibility-request counter goes up by one per
\* acceptInput call whatever its outcome (command, message, cancelled or
\* failed): it counts the calls that have returned.
C5_CounterCountsEveryCall ==
  accessibilityRequestId =
    Cardinality({c \in CallIds : calls[c].pc = "returned"})

\* C5, amended: the counter goes up by exactly one per acceptInput call
\* whose agent invocation completed without error, before the cancellation
\* check (so also for a cancelled call); a failed call leaves it alone.
C5_CounterCountsCompletedCalls ==
  accessibilityRequestId =
    Cardinality({c \in CallIds :
                   calls[c].pc = "returned" /\ calls[c].outcome # "failed"})

C5_Witness ==
  /\ accessibilityRequestId = 1
  /\ \E c, d \in CallIds :
       /\ calls[c].outcome = "cancelled"
       /\ calls[d].outcome = "failed"

\* C6: once cancel() has been called, every later acceptInput call holds
\* the same, still cancelled token: its callback ignores every chunk and it
\* makes no render call.
C6_CancelledTokenReused ==
  \A r \in Observed :
    r.tokenAtStart
      => /\ cancelled
         /\ r.message = <<>>
         /\ ForwardedChunks(r) = <<>>
         /\ Renders(r) = <<>>
         /\ r.outcome \in {"pending", "cancelled", "failed"}

C6_Witness ==
  /\ JustReturned
  /\ last.tokenAtStart
  /\ last.outcome = "cancelled"
  /\ \E i \in 1..Len(last.produced) :
       last.produced[i].chunk.kind = "content" /\ last.produced[i].sink

\* C7 as stated: the buffer is the concatenation, in arrival order, of the
\* contents of the 'content' and 'markdownContent' chunks delivered before
\* cancellation, and every chunk delivered before cancellation, of whatever
\* kind, is forwarded to the sink.
C7_BufferAndForwardAll ==
  \A r \in Observed :
    /\ r.message = ConcatText(Live(r))
    /\ ForwardedChunks(r) = ChunksOf(Live(r))

\* C7, amended: the buffer is that concatenation, and the chunks forwarded
\* are the chunks, of whatever kind, delivered before cancellation while the
\* widget existed; a chunk that arrives when there is no widget is not
\* forwarded.
C7_BufferAndForwardOnWidget ==
  \A r \in Observed :
    /\ r.message = ConcatText(Live(r))
    /\ ForwardedChunks(r) = ChunksOf(LiveOnSink(r))

C7_Witness ==
  \E r \in Observed :
    /\ Len(r.produced) = 2
    /\ r.produced[1].chunk.kind = "progressMessage"
    /\ r.produced[2].chunk.kind = "markdownContent"
    /\ \A i \in 1..2 : ~r.produced[i].cancelled /\ r.produced[i].sink
    /\ r.message = <<Fence>>
    /\ Len(ForwardedChunks(r)) = 2

\* what the step made of the call that was outstanding as c: the call as it
\* goes on waiting, or as it returned
After(c) == IF calls'[c].pc = "awaiting" THEN calls'[c] ELSE last'

\* the calls the step made on the widget on behalf of call c
NewEntries(c) == SubSeq(After(c).log, Len(calls[c].log) + 1, Len(After(c).log))

\* C8: once cancellation has been signalled no step changes the buffer of
\* an in-flight request, forwards a chunk to the sink or makes a render
\* call, also not the steps in which the agent goes on reporting chunks and
\* completes.
C8_NothingAfterCancel ==
  [][ cancelled =>
        \A c \in Outstanding :
          /\ After(c).message = calls[c].message
          /\ \A i \in 1..Len(NewEntries(c)) :
               ~IsForward(NewEntries(c)[i]) /\ ~IsRender(NewEntries(c)[i]) ]_vars

C8_Witness ==
  /\ JustReturned
  /\ ~last.tokenAtStart
  /\ last.outcome = "cancelled"
  /\ Len(last.produced) = 2
  /\ ~last.produced[1].cancelled
  /\ last.produced[2].cancelled
  /\ last.produced[2].sink
  /\ last.produced[2].chunk.kind = "content"

\* C9: the sink gets the chunks of a call in the order the agent produced
\* them; every forwarded chunk is on the sink before the render and the
\* final updateProgress() of the call; and a call that has returned is
\* reported no chunk any more.
C9_ChunksInOrderBeforeClassification ==
  /\ [](\A r \in Observed :
          /\ IsSubSeq(ForwardedChunks(r), ChunksOf(r.produced))
          /\ \A i, j \in 1..Len(r.log) :
               (IsForward(r.log[i]) /\ (IsRender(r.log[j]) \/ IsClear(r.log[j])))
                 => i < j)
  /\ [][ \A c \in CallIds :
           calls[c].pc = "returned" => calls'[c] = calls[c] ]_vars

C9_Witness ==
  /\ JustReturned
  /\ Len(ForwardedChunks(last)) = 2
  /\ ForwardedChunks(last)[1] # ForwardedChunks(last)[2]
  /\ Len(Renders(last)) = 1

\* C10: on a completion without error and cancellation a command is
\* rendered iff the buffer holds a fenced code block, its text is the text
\* of the leftmost block without the markers, and without a block the
\* message rendered is the whole buffer.
C10_CommandIffFencedBlock ==
  (CompletedNormally(last) /\ last.sinkAtSettle)
    => /\ Renders(last) # <<>>
       /\ LET r == Renders(last)[1]
              m == last.message
          IN  IF HasFencedBlock(m)
              THEN r.op = "renderTerminalCommand" /\ r.text = FirstBlockText(m)
              ELSE r.op = "renderMessage" /\ r.text = m

C10_Witness ==
  /\ CompletedNormally(last)
  /\ last.message = <<Fence, "a", Fence>>
  /\ Renders(last) # <<>>
  /\ Renders(last)[1].op = "renderTerminalCommand"
  /\ Renders(last)[1].text = <<"a">>

\* the place of a step in the order acceptInput is specified to follow
Rank(e) ==
  CASE e.op = "setActive" -> 1
    [] e.op = "input" -> 2
    [] e.op = "setValue" -> 3
    [] e.op = "invokeAgent" -> 4
    [] IsForward(e) -> 5
    [] IsRender(e) -> 6
    [] e.op = "setLastResponseType" -> 7
    [] e.op = "resetActive" -> 8
    [] IsClear(e) -> 9

OpCount(r, op) == Len(SelectSeq(r.log, LAMBDA e : e.op = op))

FirstAt(r, op) ==
  IF OpCount(r, op) = 0 THEN 0
  ELSE CHOOSE i \in 1..Len(r.log) :
         r.log[i].op = op /\ \A j \in 1..(i - 1) : r.log[j].op # op

\* C12: the request sent to the agent carries the text the input box held
\* when acceptInput was called, no variable bindings and the agent id
\* 'terminal'; the input box is read before it is cleared and is empty
\* before the agent is invoked, whatever the outcome; and the step in which
\* a call returns (rendered, cancelled or failed) leaves the input box as
\* it is.
C12_RequestCarriesInput ==
  /\ [][ (enabled /\ Len(calls') = Len(calls) + 1) =>
           LET r == calls'[Len(calls')]
           IN  /\ r.request.message =
                    (IF chatWidget = "ready" THEN widgetInput ELSE "")
               /\ r.request.variables = {}
               /\ r.request.variables2.variables = <<>>
               /\ r.request.agentId = "terminal"
               /\ widgetInput' = ""
               /\ chatWidget = "ready" =>
                    /\ 0 < FirstAt(r, "input")
                    /\ FirstAt(r, "input") < FirstAt(r, "setValue")
                    /\ FirstAt(r, "setValue") < FirstAt(r, "invokeAgent") ]_vars
  /\ [][ last'.pc = "returned" => widgetInput' = widgetInput ]_vars

C12_Witness ==
  /\ JustReturned
  /\ last.outcome \in {"failed", "cancelled"}
  /\ last.request.message = "ls"
  /\ last.sinkAtStart
  /\ widgetInput = ""

\* the call ended in a Message outcome: no error, no cancellation, no
\* fenced code block in the buffer
MessageOutcome(r) == CompletedNormally(r) /\ ~HasFencedBlock(r.message)

\* C13: the last-response-kind key is set to 'OnlyMessages' by the step in
\* which a call ends in a Message outcome and by no other step (a Command,
\* Cancelled or Failed outcome leaves it as it was); renderMessage gets the
\* requestId of the request sent to the agent by that call and the value
\* of the counter at that time.
C13_OnlyMessagesOnMessage ==
  /\ [][ IF MessageOutcome(last')
         THEN ctxLastResponseType' = "OnlyMessages"
         ELSE ctxLastResponseType' = ctxLastResponseType ]_vars
  /\ [](\A i \in 1..Len(Renders(last)) :
          Renders(last)[i].op = "renderMessage"
            => /\ MessageOutcome(last)
               /\ Renders(last)[i].reqId = last.request.requestId
               /\ Renders(last)[i].id = accessibilityRequestId)

C13_Witness ==
  /\ JustReturned
  /\ last.outcome = "command"
  /\ Renders(last) # <<>>
  /\ ctxLastResponseType = "OnlyMessages"

\* the step is a call on the widget
IsSinkCall(e) ==
  e.op \in {"input", "setValue", "updateProgress", "renderTerminalCommand",
            "renderMessage"}

\* C14: while there is no widget (xtermReady not called, or the lazy value
\* not created) acceptInput is not an error: it reaches the agent with a
\* request whose message is empty and sets the active flag; no step of a
\* call creates the widget or makes a call on it; and a call that
\* completes without error increments the counter, resets the active flag
\* unless it was cancelled, and sets the last-response kind on a Message
\* outcome.
C14_NoSinkNoError ==
  /\ [][ calls' # calls => chatWidget' = chatWidget ]_vars
  /\ [][ (chatWidget # "ready" /\ Len(calls') = Len(calls) + 1) =>
           LET r == calls'[Len(calls')]
           IN  /\ r.pc = "awaiting"
               /\ r.request.message = ""
               /\ SelectSeq(r.log, IsSinkCall) = <<>>
               /\ ctxHasActiveRequest' = TRUE ]_vars
  /\ [][ chatWidget # "ready" =>
           \A c \in Outstanding :
             SelectSeq(NewEntries(c), IsSinkCall) = <<>> ]_vars
  /\ [][ (chatWidget # "ready" /\ last'.pc = "returned"
            /\ last'.outcome # "failed") =>
           /\ accessibilityRequestId' = accessibilityRequestId + 1
           /\ ~last'.tokenAtSettle => ctxHasActiveRequest' = FALSE
           /\ MessageOutcome(last') => ctxLastResponseType' = "OnlyMessages"
        ]_vars

\* C15: whatever the interleaving of acceptInput calls, overlapping ones
\* included, chatRequestActive is true whenever at least one call is still
\* awaiting its agent invocation.
C15_ActiveWhileOutstanding ==
  Outstanding # {} => ctxHasActiveRequest = TRUE

\* C16: every call has a buffer and a requestId of its own: the buffer of
\* a call is made of the chunks reported to that call and of no others,
\* also when calls overlap; a step that reports nothing to a waiting call
\* leaves its buffer and what it forwarded alone; and what a call renders
\* is taken from its own buffer and carries its own requestId.
C16_CallsOwnTheirBuffer ==
  /\ [](\A r \in Observed : r.message = ConcatText(Live(r)))
  /\ [](\A c, d \in Outstanding :
          c # d => calls[c].requestId # calls[d].requestId)
  /\ [][ \A c \in Outstanding :
           (calls'[c].pc = "awaiting" /\ calls'[c].produced = calls[c].produced)
             => /\ calls'[c].message = calls[c].message
                /\ ForwardedChunks(calls'[c]) = ForwardedChunks(calls[c]) ]_vars
  /\ [](\A i \in 1..Len(Renders(last)) :
          LET e == Renders(last)[i]
          IN  IF e.op = "renderMessage"
              THEN e.text = last.message /\ e.reqId = last.requestId
              ELSE e.text = FirstBlockText(last.message))

C16_Witness ==
  /\ JustReturned
  /\ last.overlapped
  /\ last.message # <<>>
  /\ Renders(last) # <<>>
  /\ \E c \in Outstanding :
       calls[c].message # <<>> /\ calls[c].message # last.message

\* C17: the counter never goes down and changes by one at a time; the
\* value a call hands to renderTerminalCommand or renderMessage is the
\* number of acceptInput calls whose agent invocation has completed
\* without error up to and including that call, which is more than the
\* counter was before, so that the values rendered go up strictly.
C17_CounterAndRenderedIds ==
  /\ [][ accessibilityRequestId' \in
           {accessibilityRequestId, accessibilityRequestId + 1} ]_vars
  /\ [](\A i \in 1..Len(Renders(last)) :
          Renders(last)[i].id =
            Cardinality({c \in CallIds :
                           calls[c].pc = "returned"
                             /\ calls[c].outcome # "failed"}))
  /\ [][ \A i \in 1..Len(Renders(last')) :
           /\ Renders(last')[i].id > accessibilityRequestId
           /\ Renders(last')[i].id = accessibilityRequestId' ]_vars

C17_Witness ==
  /\ JustReturned
  /\ Renders(last) # <<>>
  /\ Renders(last)[1].id = 2
  /\ accessibilityRequestId = 2

\* C18: with the feature on, chatAgentRegistered is true after the
\* constructor iff the 'terminal' agent is registered then; later it
\* becomes true only in a step after which the agent exists, and is true
\* whenever the agent exists; no step sets it to false, so it stays true
\* when the agent is unregistered.
C18_AgentKeySetOnce ==
  /\ enabled => (ctxHasTerminalAgent = agentRegistered)
  /\ [](enabled /\ agentRegistered => ctxHasTerminalAgent)
  /\ [][ ctxHasTerminalAgent => ctxHasTerminalAgent' ]_vars
  /\ [][ (~ctxHasTerminalAgent /\ ctxHasTerminalAgent')
           => (enabled /\ agentRegistered') ]_vars

C18_Witness ==
  /\ enabled
  /\ agentListener
  /\ ctxHasTerminalAgent
  /\ ~agentRegistered

\* C19: a layout call never creates the widget; while the widget does not
\* exist it has been laid out with nothing, and the dimension recorded is
\* the one of the latest layout call; the step that creates the widget
\* lays it out once, with the width of the latest layout call, or not at
\* all when there was none; once the widget exists every layout call
\* hands it its width; and no other step lays the widget out.
C19_LayoutIsDeferred ==
  /\ [][ layouts' # layouts => chatWidget' = chatWidget ]_vars
  /\ [](chatWidget # "ready" => widgetLayouts = <<>>)
  /\ [](enabled => lastLayoutDimensions = layoutArg)
  /\ [][ (chatWidget # "ready" /\ chatWidget' = "ready") =>
           widgetLayouts' = (IF layouts = 0 THEN <<>> ELSE << layoutArg >>)
        ]_vars
  /\ [][ (chatWidget = "ready" /\ layouts' # layouts) =>
           widgetLayouts' = Append(widgetLayouts, layoutArg') ]_vars
  /\ [][ (chatWidget = "ready" /\ layouts' = layouts) =>
           widgetLayouts' = widgetLayouts ]_vars

C19_Witness ==
  /\ chatWidget = "ready"
  /\ layouts = 3
  /\ widgetLayouts = << 120, 80 >>

====
